---- MODULE Spec2Model ----
(***************************************************************************)
(* ProMed (src/app.py): a Flask application over two tables, User and      *)
(* Medicine, with a session cookie per browser, QR image files on disk and *)
(* the expiry alert scan send_expiry_alerts.                                *)
(*                                                                         *)
(* Strings are sequences of one-character strings, so that strip(),        *)
(* lower(), the e-mail regular expression and urllib.parse.quote are       *)
(* computed character by character as the code computes them.  Dates are   *)
(* day numbers.                                                            *)
(***************************************************************************)
EXTENDS Integers, Sequences, FiniteSets, TLC

VARIABLES
    users,       \* rows of table user
    medicines,   \* rows of table medicine
    files,       \* files on disk: [dir, name, content]
    session,     \* session[c]: the cookie session of browser c
    pending,     \* pending[c]: a signup request of c between its query and its commit
    resp,        \* the last HTTP response
    today,       \* date.today()
    outbox,      \* the bag of e-mails accepted by mail.send: outbox[e] copies of e
    next_uuid,   \* number of uuid4() tokens drawn so far
    scans,       \* number of alert scans run so far
    env,         \* the deployment: working directory, mail credentials
    jobs,        \* jobs[j]: the position and the local variables of scan j in flight
    cron_day     \* the last day the cron trigger of expiry_alerts_daily fired

vars == <<users, medicines, files, session, pending, resp, today, outbox,
          next_uuid, scans, env, jobs, cron_day>>

(***************************************************************************)
(* Bounds of the model.                                                    *)
(***************************************************************************)
MaxMeds == 2
MaxDay == 2
MaxScans == 2

Clients == {"c1", "c2"}

(***************************************************************************)
(* Strings.                                                                *)
(***************************************************************************)
UpperLetters == <<"A","B","C","D","E","F","G","H","I","J","K","L","M",
                  "N","O","P","Q","R","S","T","U","V","W","X","Y","Z">>
LowerLetters == <<"a","b","c","d","e","f","g","h","i","j","k","l","m",
                  "n","o","p","q","r","s","t","u","v","w","x","y","z">>
DigitChars == {"0","1","2","3","4","5","6","7","8","9"}
Range(s) == {s[i] : i \in DOMAIN s}
Whitespace == {" "}

\* str.lower() on one character
lower_char(c) ==
    IF \E i \in DOMAIN UpperLetters : UpperLetters[i] = c
    THEN LowerLetters[CHOOSE i \in DOMAIN UpperLetters : UpperLetters[i] = c]
    ELSE c

\* str.lower()
lower(s) == [i \in DOMAIN s |-> lower_char(s[i])]

\* str.strip(): drops leading and trailing whitespace
strip(s) ==
    LET keep == {i \in DOMAIN s : s[i] \notin Whitespace}
    IN  IF keep = {} THEN <<>>
        ELSE LET lo == CHOOSE i \in keep : \A j \in keep : i <= j
                 hi == CHOOSE i \in keep : \A j \in keep : j <= i
             IN  SubSeq(s, lo, hi)

\* \w of the regular expression at src/app.py:80
WordChars == Range(UpperLetters) \cup Range(LowerLetters) \cup DigitChars \cup {"_"}
\* [\w\.-]
LocalChars == WordChars \cup {".", "-"}

\* re.match(r'^[\w\.-]+@[\w\.-]+\.\w+$', email) is not None
is_valid_email(email) ==
    \E at \in DOMAIN email, dot \in DOMAIN email :
        /\ email[at] = "@"
        /\ email[dot] = "."
        /\ 1 < at
        /\ at + 1 < dot
        /\ dot < Len(email)
        /\ \A i \in 1..(at - 1) : email[i] \in LocalChars
        /\ \A i \in (at + 1)..(dot - 1) : email[i] \in LocalChars
        /\ \A i \in (dot + 1)..Len(email) : email[i] \in WordChars

\* len(pwd) < 6 is rejected (src/app.py:222)
MinPasswordLen == 6

\* werkzeug.security: an opaque salted digest that verifies exactly its password
generate_password_hash(pwd) == [digest_of |-> pwd]
check_password_hash(hash, pwd) == hash.digest_of = pwd

(***************************************************************************)
(* Responses.                                                              *)
(***************************************************************************)
NoResp == [op |-> "none", client |-> "none", status |-> "none", flash |-> "none", body |-> <<>>]
Response(op, c, status, flash, body) ==
    [op |-> op, client |-> c, status |-> status, flash |-> flash, body |-> body]

\* an empty session: no 'user_id' key (user ids start at 1, 0 stands for the absent key)
NoSession == [logged_in |-> FALSE, user_id |-> 0, username |-> <<>>, email |-> <<>>]
\* session['user_id'], session['username'], session['email'] (src/app.py:241-243)
Principal(u) == [logged_in |-> TRUE, user_id |-> u.id, username |-> u.username, email |-> u.email]

NoRequest == [active |-> FALSE]

EmptyOutbox == <<>>
\* the bag b with one more copy of every message of the set S
Deliver(b, S) ==
    [e \in DOMAIN b \cup S |-> (IF e \in DOMAIN b THEN b[e] ELSE 0) + (IF e \in S THEN 1 ELSE 0)]
\* the number of copies of e in b
Copies(b, e) == IF e \in DOMAIN b THEN b[e] ELSE 0

(***************************************************************************)
(* Table user: unique username, unique email (src/app.py:48-53).           *)
(***************************************************************************)
\* the email column without its unique constraint
ViolatesUniqueUsername(rows, u) ==
    \E r \in rows : r.username = u.username

ViolatesUnique(rows, u) ==
    \E r \in rows : r.username = u.username \/ r.email = u.email

\* the next INTEGER PRIMARY KEY of a table: one more than the largest present
NextId(rows) ==
    IF rows = {} THEN 1
    ELSE (CHOOSE i \in {r.id : r \in rows} : \A r \in rows : r.id <= i) + 1

\* cwd_at_root: os.getcwd() is app.root_path, so that the relative path stored in
\* Medicine.qr_code names the file written under QR_FOLDER (src/app.py:101).
\* mail_configured: MAIL_USERNAME and MAIL_PASSWORD are set (src/app.py:33-34).
Environments == [cwd_at_root : BOOLEAN, mail_configured : BOOLEAN]

\* the callers of send_expiry_alerts: the two jobs of the scheduler
\* (src/app.py:476-494) and the route /run-expiry-test (src/app.py:354-365)
Jobs == {"expiry_alerts_immediate", "expiry_alerts_daily", "run_expiry_test"}

\* no scan of the job is in flight
Idle == [pc |-> "idle", today |-> 0, warning |-> <<>>, expired |-> <<>>, fresh |-> TRUE,
         client |-> "none"]

Init ==
    /\ users = {}
    /\ medicines = {}
    /\ files = {}
    /\ session = [c \in Clients |-> NoSession]
    /\ pending = [c \in Clients |-> NoRequest]
    /\ resp = NoResp
    /\ today = 1
    /\ outbox = EmptyOutbox
    /\ next_uuid = 0
    /\ scans = 0
    /\ jobs = [j \in Jobs |-> Idle]
    /\ cron_day = 0
    /\ env \in Environments

(***************************************************************************)
(* POST /signup (src/app.py:211-231).  The handler queries for a duplicate *)
(* (line 224) and commits the new row later (line 228); requests of other  *)
(* browsers may run in between, so the two steps are separate actions.     *)
(***************************************************************************)
SignupQuery(c, username, email_in, password) ==
    LET uname == strip(username)
        email == lower(strip(email_in))
        pwd   == strip(password)
        keep  == UNCHANGED <<users, medicines, files, session, today, outbox,
                             next_uuid, scans, env, jobs, cron_day>>
    IN  /\ ~pending[c].active
        /\ keep
        /\ IF uname = <<>> \/ email = <<>> \/ pwd = <<>>
           THEN /\ resp' = Response("signup", c, "signup.html", "All fields are required.", <<>>)
                /\ UNCHANGED pending
           ELSE IF ~is_valid_email(email)
           THEN /\ resp' = Response("signup", c, "signup.html", "Invalid email format.", <<>>)
                /\ UNCHANGED pending
           ELSE IF Len(pwd) < MinPasswordLen
           THEN /\ resp' = Response("signup", c, "signup.html", "Password must be at least 6 characters.", <<>>)
                /\ UNCHANGED pending
           ELSE IF \E r \in users : r.username = uname \/ r.email = email
           THEN /\ resp' = Response("signup", c, "signup.html", "Username or email already registered.", <<>>)
                /\ UNCHANGED pending
           ELSE /\ pending' = [pending EXCEPT ![c] =
                        [active |-> TRUE, username |-> uname, email |-> email, password |-> pwd]]
                /\ UNCHANGED resp

\* db.session.add(u); db.session.commit() under the unique constraints of the table
SignupCommit(c) ==
    LET q == pending[c]
        u == [id |-> NextId(users), username |-> q.username, email |-> q.email,
              password |-> generate_password_hash(q.password)]
    IN  /\ q.active
        /\ pending' = [pending EXCEPT ![c] = NoRequest]
        /\ UNCHANGED <<medicines, files, session, today, outbox, next_uuid,
                       scans, env, jobs, cron_day>>
        /\ IF ViolatesUnique(users, u)
           THEN \* IntegrityError: unhandled, the 500 handler rolls back
                /\ resp' = Response("signup", c, "500", "IntegrityError", <<>>)
                /\ UNCHANGED users
           ELSE /\ users' = users \cup {u}
                /\ resp' = Response("signup", c, "redirect:login", "Account created! Please log in.", <<>>)

(***************************************************************************)
(* POST /login (src/app.py:233-247).  .first() of a query without ORDER BY *)
(* returns any one of the matching rows.                                   *)
(***************************************************************************)
Login(c, login_input, password) ==
    LET login_in == lower(strip(login_input))
        pwd == strip(password)
        matches == {r \in users : r.username = login_in \/ r.email = login_in}
        keep == UNCHANGED <<users, medicines, files, pending, today, outbox,
                            next_uuid, scans, env, jobs, cron_day>>
    IN  /\ keep
        /\ IF matches = {}
           THEN /\ resp' = Response("login", c, "login.html", "Invalid credentials.", <<>>)
                /\ UNCHANGED session
           ELSE \E user \in matches :
                  IF check_password_hash(user.password, pwd)
                  THEN /\ session' = [session EXCEPT ![c] = Principal(user)]
                       /\ resp' = Response("login", c, "redirect:view_medicines", "Welcome back", <<>>)
                  ELSE /\ resp' = Response("login", c, "login.html", "Invalid credentials.", <<>>)
                       /\ UNCHANGED session

(***************************************************************************)
(* GET /logout (src/app.py:249-253): not wrapped by login_required.        *)
(***************************************************************************)
Logout(c) ==
    /\ session' = [session EXCEPT ![c] = NoSession]
    /\ resp' = Response("logout", c, "redirect:home", "You have been logged out.", <<>>)
    /\ UNCHANGED <<users, medicines, files, pending, today, outbox, next_uuid,
                   scans, env, jobs, cron_day>>

(***************************************************************************)
(* Dates.  A date is its day of January 2025; the form sends it as         *)
(* "2025-01-" followed by the day.                                         *)
(***************************************************************************)
DigitSeq == <<"0","1","2","3","4","5","6","7","8","9">>
DigitVal(c) == (CHOOSE i \in DOMAIN DigitSeq : DigitSeq[i] = c) - 1
DatePrefix == <<"2","0","2","5","-","0","1","-">>
DaysInMonth == 31
ValueError == 0

\* datetime.strptime(s, '%Y-%m-%d').date(): %d takes one or two digits;
\* ValueError when the text does not match or the day is out of range
strptime(s) ==
    LET n == Len(DatePrefix)
        dd == SubSeq(s, n + 1, Len(s))
        val == IF Len(dd) = 1 THEN DigitVal(dd[1])
               ELSE DigitVal(dd[1]) * 10 + DigitVal(dd[2])
    IN  IF /\ Len(s) > n
           /\ SubSeq(s, 1, n) = DatePrefix
           /\ Len(dd) \in {1, 2}
           /\ \A i \in DOMAIN dd : dd[i] \in DigitChars
           /\ val >= 1
           /\ val <= DaysInMonth
        THEN val
        ELSE ValueError

\* str(date): ISO format, the day zero-padded to two digits
isoformat(d) == DatePrefix \o <<DigitSeq[(d \div 10) + 1], DigitSeq[(d % 10) + 1]>>

(***************************************************************************)
(* URLs: urllib.parse.quote, and the decoding of a query string done for   *)
(* request.args.                                                           *)
(***************************************************************************)
\* characters quote() never encodes
AlwaysSafe == Range(UpperLetters) \cup Range(LowerLetters) \cup DigitChars
              \cup {"_", ".", "-", "~"}
\* quote(string, safe='/')
DefaultSafe == {"/"}

\* the hexadecimal code of each other character of the model's alphabet
PercentCodes ==
    << <<" ", "2", "0">>, <<"#", "2", "3">>, <<"%", "2", "5">>, <<"&", "2", "6">>,
       <<"+", "2", "B">>, <<"=", "3", "D">>, <<"?", "3", "F">>, <<"@", "4", "0">>,
       <<":", "3", "A">> >>

quote_char(c) ==
    IF c \in AlwaysSafe \cup DefaultSafe THEN <<c>>
    ELSE LET e == PercentCodes[CHOOSE i \in DOMAIN PercentCodes : PercentCodes[i][1] = c]
         IN  <<"%", e[2], e[3]>>

\* the text put into the URL as it is
quote_nothing(s) == s

RECURSIVE quote(_)
quote(s) == IF s = <<>> THEN <<>> ELSE quote_char(Head(s)) \o quote(Tail(s))

\* unquote_plus: '+' is a space, %XX is the character of that code;
\* a '%' not followed by a code stays as it is
RECURSIVE unquote_plus(_)
unquote_plus(s) ==
    IF s = <<>> THEN <<>>
    ELSE IF Head(s) = "+" THEN <<" ">> \o unquote_plus(Tail(s))
    ELSE IF /\ Head(s) = "%"
            /\ Len(s) >= 3
            /\ \E i \in DOMAIN PercentCodes :
                 PercentCodes[i][2] = s[2] /\ PercentCodes[i][3] = s[3]
         THEN LET e == PercentCodes[CHOOSE i \in DOMAIN PercentCodes :
                          PercentCodes[i][2] = s[2] /\ PercentCodes[i][3] = s[3]]
              IN  <<e[1]>> \o unquote_plus(SubSeq(s, 4, Len(s)))
    ELSE <<Head(s)>> \o unquote_plus(Tail(s))

\* the position of the first c in s, or Len(s) + 1
IndexOf(s, c) ==
    IF c \in Range(s) THEN CHOOSE i \in DOMAIN s : s[i] = c /\ \A j \in 1..(i - 1) : s[j] # c
    ELSE Len(s) + 1

\* the query string of a URL: after the first '?', the fragment after '#' dropped
url_query(url) ==
    LET nofrag == SubSeq(url, 1, IndexOf(url, "#") - 1)
    IN  SubSeq(nofrag, IndexOf(nofrag, "?") + 1, Len(nofrag))

\* s.split(sep)
RECURSIVE split(_, _)
split(s, sep) ==
    LET i == IndexOf(s, sep)
    IN  IF i > Len(s) THEN <<s>>
        ELSE <<SubSeq(s, 1, i - 1)>> \o split(SubSeq(s, i + 1, Len(s)), sep)

\* request.args: the decoded (key, value) pairs of the query string, in order
parse_args(query) ==
    LET parts == split(query, "&")
        pair(p) == LET i == IndexOf(p, "=")
                   IN  <<unquote_plus(SubSeq(p, 1, i - 1)),
                         unquote_plus(SubSeq(p, i + 1, Len(p)))>>
    IN  [k \in DOMAIN parts |-> pair(parts[k])]

\* request.args.get(key, ''): the first value of the key
args_get(args, key) ==
    IF \E k \in DOMAIN args : args[k][1] = key
    THEN args[CHOOSE k \in DOMAIN args :
                 args[k][1] = key /\ \A j \in 1..(k - 1) : args[j][1] # key][2]
    ELSE <<>>

\* request.host_url
host_url == <<"h","t","t","p",":","/","/","h","/">>

\* the URL put into the QR code (src/app.py:281)
medicine_url(name, fac, mfg, exp, uses) ==
    host_url \o <<"q","r","-","s","c","a","n","?","n","a","m","e","=">> \o quote(name)
      \o <<"&","f","a","c","t","o","r","y","=">> \o quote(fac)
      \o <<"&","m","f","g","=">> \o isoformat(mfg)
      \o <<"&","e","x","p","=">> \o isoformat(exp)
      \o <<"&","u","s","e","s","=">> \o quote(uses)

\* medicine_data of qr_scan_handler (src/app.py:336-349)
medicine_data(url) ==
    LET args == parse_args(url_query(url))
    IN  [name |-> args_get(args, <<"n","a","m","e">>),
         factory_name |-> args_get(args, <<"f","a","c","t","o","r","y">>),
         manufacturing_date |-> args_get(args, <<"m","f","g">>),
         expiry_date |-> args_get(args, <<"e","x","p">>),
         uses |-> args_get(args, <<"u","s","e","s">>)]

(***************************************************************************)
(* login_required (src/app.py:70-77).                                      *)
(***************************************************************************)
\* the decorator letting every request through
login_required_open(c) == TRUE

\* 'user_id' in session
login_required(c) == session[c].logged_in

\* flash("Please log in first."); redirect(url_for("login")): the view is not called
Unauthorized(c, op) ==
    /\ resp' = Response(op, c, "redirect:login", "Please log in first.", <<>>)
    /\ UNCHANGED <<users, medicines, files, session, pending, today, outbox,
                   next_uuid, scans, env, jobs, cron_day>>

(***************************************************************************)
(* QR image files.                                                         *)
(***************************************************************************)
\* file_path = os.path.join(QR_FOLDER, filename): under app.root_path (src/app.py:101, 278)
file_path(filename) == [dir |-> "root", name |-> filename]

\* the file a relative path "static/qrcodes/<filename>" names: relative to os.getcwd()
relative_path(filename) ==
    [dir |-> IF env.cwd_at_root THEN "root" ELSE "cwd", name |-> filename]

\* os.path.exists(path)
path_exists(path) == \E f \in files : f.dir = path.dir /\ f.name = path.name

(***************************************************************************)
(* POST /add-medicine (src/app.py:255-299).  outcome is what the           *)
(* environment does to the request: "ok", "qr_error" (pyqrcode or the file *)
(* system raises at line 284), "commit_error" (the commit at line 295      *)
(* raises; the 500 handler rolls back).                                    *)
(***************************************************************************)
AddOutcomes == {"ok", "qr_error", "commit_error"}

\* only an expiry date before the manufacturing date rejected
order_error_strict(mfg, exp) == exp < mfg

\* exp <= mfg is rejected (src/app.py:274)
order_error(mfg, exp) == exp <= mfg

AddMedicine(c, name_in, fac_in, mfg_in, exp_in, uses_in, outcome) ==
    LET name == strip(name_in)
        fac == strip(fac_in)
        mfg_s == strip(mfg_in)
        exp_s == strip(exp_in)
        uses == strip(uses_in)
        mfg == strptime(mfg_s)
        exp == strptime(exp_s)
        filename == next_uuid + 1
        med == [id |-> NextId(medicines), name |-> name, factory_name |-> fac,
                manufacturing_date |-> mfg, expiry_date |-> exp, uses |-> uses,
                qr_code |-> filename,
                expiry_alert_sent_prior |-> FALSE,
                expiry_alert_sent_expiry_day |-> FALSE,
                user_id |-> session[c].user_id]
        qr == [dir |-> file_path(filename).dir, name |-> filename,
               content |-> medicine_url(name, fac, mfg, exp, uses)]
        page(flash) ==
            /\ resp' = Response("add_medicine", c, "add_medicine.html", flash, <<>>)
            /\ UNCHANGED <<medicines, files, next_uuid>>
    IN  IF ~login_required(c) THEN Unauthorized(c, "add_medicine")
        ELSE
        /\ UNCHANGED <<users, session, pending, today, outbox, scans, env,
                       jobs, cron_day>>
        /\ IF name = <<>> \/ fac = <<>> \/ mfg_s = <<>> \/ exp_s = <<>> \/ uses = <<>>
           THEN page("All fields are required.")
           ELSE IF mfg = ValueError \/ exp = ValueError
           THEN page("Invalid date format.")
           ELSE IF order_error(mfg, exp)
           THEN page("Expiry must be after manufacturing date.")
           ELSE /\ next_uuid < MaxMeds
                /\ next_uuid' = filename
                /\ IF outcome = "qr_error"
                   THEN /\ resp' = Response("add_medicine", c, "500", "qr", <<>>)
                        /\ UNCHANGED <<medicines, files>>
                   ELSE /\ files' = files \cup {qr}
                        /\ IF outcome = "commit_error"
                           THEN /\ resp' = Response("add_medicine", c, "500", "commit", <<>>)
                                /\ UNCHANGED medicines
                           ELSE /\ medicines' = medicines \cup {med}
                                /\ resp' = Response("add_medicine", c, "redirect:view_medicines",
                                                    "Medicine added successfully.", <<>>)

\* the ownership test left out
is_owner_unchecked(c, med) == TRUE

\* med.user_id != session['user_id'] is answered by abort(403) (src/app.py:311, 319)
is_owner(c, med) == med.user_id = session[c].user_id

\* the listing without the filter by owner
ViewMedicinesOfAll(c) ==
    IF ~login_required(c) THEN Unauthorized(c, "view_medicines")
    ELSE LET n == Cardinality(medicines)
         IN  /\ \E order \in [1..n -> medicines] :
                  /\ \A i, j \in 1..n : i # j => order[i] # order[j]
                  /\ \A i, j \in 1..n : i < j => order[i].expiry_date <= order[j].expiry_date
                  /\ resp' = Response("view_medicines", c, "medicine_details.html", "none", order)
             /\ UNCHANGED <<users, medicines, files, session, pending, today, outbox,
                            next_uuid, scans, env, jobs, cron_day>>

(***************************************************************************)
(* GET /medicines (src/app.py:301-305): the caller's rows by expiry date;  *)
(* rows of equal expiry date come in any order.                            *)
(***************************************************************************)
ViewMedicines(c) ==
    IF ~login_required(c) THEN Unauthorized(c, "view_medicines")
    ELSE LET meds == {m \in medicines : m.user_id = session[c].user_id}
             n == Cardinality(meds)
         IN  /\ \E order \in [1..n -> meds] :
                  /\ \A i, j \in 1..n : i # j => order[i] # order[j]
                  /\ \A i, j \in 1..n : i < j => order[i].expiry_date <= order[j].expiry_date
                  /\ resp' = Response("view_medicines", c, "medicine_details.html", "none", order)
             /\ UNCHANGED <<users, medicines, files, session, pending, today, outbox,
                            next_uuid, scans, env, jobs, cron_day>>

(***************************************************************************)
(* GET /medicine/<id> (src/app.py:307-313).                                *)
(***************************************************************************)
ViewMedicine(c, medicine_id) ==
    IF ~login_required(c) THEN Unauthorized(c, "view_medicine")
    ELSE /\ UNCHANGED <<users, medicines, files, session, pending, today, outbox,
                        next_uuid, scans, env, jobs, cron_day>>
         /\ IF ~\E m \in medicines : m.id = medicine_id
            THEN resp' = Response("view_medicine", c, "404", "none", <<>>)
            ELSE LET med == CHOOSE m \in medicines : m.id = medicine_id
                 IN  IF ~is_owner(c, med)
                     THEN resp' = Response("view_medicine", c, "403", "none", <<>>)
                     ELSE resp' = Response("view_medicine", c, "view_medicine.html", "none", <<med>>)

(***************************************************************************)
(* POST /medicine/<id>/delete (src/app.py:315-329).  outcome: "ok",        *)
(* "remove_error" (os.remove raises), "commit_error" (the commit raises).  *)
(* The file removal and the row deletion share one try block.              *)
(***************************************************************************)
DeleteOutcomes == {"ok", "remove_error", "commit_error"}

DeleteMedicine(c, medicine_id, outcome) ==
    IF ~login_required(c) THEN Unauthorized(c, "delete_medicine")
    ELSE /\ UNCHANGED <<users, session, pending, today, outbox, next_uuid, scans, env,
                        jobs, cron_day>>
         /\ IF ~\E m \in medicines : m.id = medicine_id
            THEN /\ resp' = Response("delete_medicine", c, "404", "none", <<>>)
                 /\ UNCHANGED <<medicines, files>>
            ELSE LET med == CHOOSE m \in medicines : m.id = medicine_id
                     path == relative_path(med.qr_code)
                 IN  IF ~is_owner(c, med)
                     THEN /\ resp' = Response("delete_medicine", c, "403", "none", <<>>)
                          /\ UNCHANGED <<medicines, files>>
                     ELSE IF path_exists(path) /\ outcome = "remove_error"
                     THEN /\ resp' = Response("delete_medicine", c, "redirect:view_medicines",
                                              "Error deleting medicine.", <<>>)
                          /\ UNCHANGED <<medicines, files>>
                     ELSE /\ files' = {f \in files : ~(f.dir = path.dir /\ f.name = path.name)}
                          /\ IF outcome = "commit_error"
                             THEN /\ resp' = Response("delete_medicine", c, "redirect:view_medicines",
                                                      "Error deleting medicine.", <<>>)
                                  /\ UNCHANGED medicines
                             ELSE /\ medicines' = medicines \ {med}
                                  /\ resp' = Response("delete_medicine", c, "redirect:view_medicines",
                                                      "Medicine deleted.", <<>>)

(***************************************************************************)
(* GET /qr-scan (src/app.py:332-351), requested by scanning a QR image.    *)
(***************************************************************************)
QrScan(c, url) ==
    /\ resp' = Response("qr_scan_handler", c, "qr_scan_result.html", "none", <<medicine_data(url)>>)
    /\ UNCHANGED <<users, medicines, files, session, pending, today, outbox,
                   next_uuid, scans, env, jobs, cron_day>>

(***************************************************************************)
(* send_expiry_alerts (src/app.py:105-186).  outcome[id] is what the       *)
(* environment does to the e-mail of a selected medicine: "sent",          *)
(* "send_error" (mail.send raises), "commit_error" (mail.send returns and  *)
(* the commit of the flag raises; the except branch rolls back).           *)
(***************************************************************************)
ScanOutcomes == {"sent", "send_error", "commit_error"}

\* Medicine.query.filter(expiry_date == tomorrow, expiry_alert_sent_prior == False)
warning_meds == {m \in medicines : m.expiry_date = today + 1 /\ ~m.expiry_alert_sent_prior}

\* Medicine.query.filter(expiry_date == today, expiry_alert_sent_expiry_day == False)
expired_meds == {m \in medicines : m.expiry_date = today /\ ~m.expiry_alert_sent_expiry_day}

\* the medicines whose mail.send is called: the owner has an e-mail address
\* (lines 128-131, 159-162) and the mail credentials are configured (134-136, 165-167)
Attempted(meds) ==
    {m \in meds : /\ \E u \in users : u.id = m.user_id /\ u.email # <<>>
                  /\ env.mail_configured}

\* the message mail.send accepted for med
Email(med, kind) ==
    [med |-> med.qr_code, kind |-> kind,
     to |-> (CHOOSE u \in users : u.id = med.user_id).email,
     day |-> today]

\* the scan whose rollback of a failed "has expired" alert takes back the prior flag
send_expiry_alerts_reverting(outcome) ==
    LET warned == {m \in Attempted(warning_meds) : outcome[m.id] # "send_error"}
        alerted == {m \in Attempted(expired_meds) : outcome[m.id] # "send_error"}
        flag_prior == {m \in warned : outcome[m.id] = "sent"}
        flag_day == {m \in alerted : outcome[m.id] = "sent"}
    IN  /\ outbox' = Deliver(outbox, {Email(m, "expires_tomorrow") : m \in warned}
                                         \cup {Email(m, "has_expired") : m \in alerted})
        /\ medicines' = {IF m \in flag_prior THEN [m EXCEPT !.expiry_alert_sent_prior = TRUE]
                         ELSE IF m \in flag_day THEN [m EXCEPT !.expiry_alert_sent_expiry_day = TRUE]
                         ELSE IF m \in Attempted(expired_meds)
                         THEN [m EXCEPT !.expiry_alert_sent_prior = FALSE]
                         ELSE m : m \in medicines}

send_expiry_alerts(outcome) ==
    LET warned == {m \in Attempted(warning_meds) : outcome[m.id] # "send_error"}
        alerted == {m \in Attempted(expired_meds) : outcome[m.id] # "send_error"}
        flag_prior == {m \in warned : outcome[m.id] = "sent"}
        flag_day == {m \in alerted : outcome[m.id] = "sent"}
    IN  /\ outbox' = Deliver(outbox, {Email(m, "expires_tomorrow") : m \in warned}
                                         \cup {Email(m, "has_expired") : m \in alerted})
        /\ medicines' = {IF m \in flag_prior THEN [m EXCEPT !.expiry_alert_sent_prior = TRUE]
                         ELSE IF m \in flag_day THEN [m EXCEPT !.expiry_alert_sent_expiry_day = TRUE]
                         ELSE m : m \in medicines}

\* the outcomes of one scan
Outcomes == [{m.id : m \in warning_meds \cup expired_meds} -> ScanOutcomes]

\* the scheduler's jobs expiry_alerts_immediate and expiry_alerts_daily (src/app.py:476-494)
ScheduledScan ==
    /\ scans < MaxScans
    /\ scans' = scans + 1
    /\ \E outcome \in Outcomes : send_expiry_alerts(outcome)
    /\ UNCHANGED <<users, files, session, pending, resp, today, next_uuid, env, jobs, cron_day>>

\* GET /run-expiry-test (src/app.py:354-365)
RunExpiryTest(c) ==
    IF ~login_required(c) THEN Unauthorized(c, "run_expiry_test")
    ELSE /\ scans < MaxScans
         /\ scans' = scans + 1
         /\ \E outcome \in Outcomes : send_expiry_alerts(outcome)
         /\ resp' = Response("run_expiry_test", c, "redirect:view_medicines",
                             "Manually triggered expiry alerts", <<>>)
         /\ UNCHANGED <<users, files, session, pending, today, next_uuid, env, jobs, cron_day>>

\* midnight: date.today() moves on
AdvanceDay ==
    /\ today < MaxDay
    /\ today' = today + 1
    /\ UNCHANGED <<users, medicines, files, session, pending, resp, outbox, next_uuid,
                   scans, env, jobs, cron_day>>

(***************************************************************************)
(* send_expiry_alerts step by step, for a scan that runs while other scans *)
(* run: the jobs of the scheduler run in its thread pool, the route in a   *)
(* request thread, and app.run(debug=True) starts the module, and with it  *)
(* the scheduler, in a second process.  A scan in flight holds its two     *)
(* result lists and its position: "loop" at the head of an iteration       *)
(* (lines 127, 158), "sent" when mail.send has returned (144, 175),        *)
(* "except" in the handler (148, 179).  The head of a list is the object   *)
(* the loop is at.                                                         *)
(***************************************************************************)
SendOutcomes == {"sent", "send_error"}
CommitOutcomes == {"ok", "commit_error"}

\* .all() of a query without ORDER BY: the rows in any order
Orders(rows) ==
    {o \in [1..Cardinality(rows) -> rows] : \A i, j \in DOMAIN o : i # j => o[i] # o[j]}

\* the object the loop is at, and the alert of its list
Current(job) ==
    IF job.warning # <<>>
    THEN [med |-> Head(job.warning), kind |-> "expires_tomorrow"]
    ELSE [med |-> Head(job.expired), kind |-> "has_expired"]

\* the next iteration of the loop
Continue(job, fresh) ==
    [job EXCEPT !.pc = "loop",
                !.fresh = fresh,
                !.warning = IF job.warning # <<>> THEN Tail(job.warning) ELSE job.warning,
                !.expired = IF job.warning # <<>> THEN job.expired ELSE Tail(job.expired)]

\* the handler letting the exception end the scan
except_reraise(job) == Idle

\* except Exception (lines 148-155, 179-186): db.session.rollback(), which expires
\* the loaded objects, and the loop goes on
except_Exception(job) == Continue(job, FALSE)

\* the attributes of an object of the session: as loaded while the session has
\* neither committed nor rolled back since, else the row of that id read again
Row(job, med) == IF job.fresh THEN {med} ELSE {r \in medicines : r.id = med.id}

\* med.expiry_alert_sent_prior = True (line 145), med.expiry_alert_sent_expiry_day = True (176)
SetFlag(row, kind) ==
    IF kind = "expires_tomorrow" THEN [row EXCEPT !.expiry_alert_sent_prior = TRUE]
    ELSE [row EXCEPT !.expiry_alert_sent_expiry_day = TRUE]

\* lines 109-124: the two queries
Select(j, c) ==
    /\ jobs[j].pc = "idle"
    /\ scans < MaxScans
    /\ scans' = scans + 1
    /\ \E w \in Orders(warning_meds), e \in Orders(expired_meds) :
         jobs' = [jobs EXCEPT ![j] = [pc |-> "loop", today |-> today, warning |-> w,
                                      expired |-> e, fresh |-> TRUE, client |-> c]]

\* a job of the scheduler starts; the cron trigger of expiry_alerts_daily fires once a day
StartJob(j) ==
    /\ j \in {"expiry_alerts_immediate", "expiry_alerts_daily"}
    /\ j = "expiry_alerts_daily" => cron_day < today
    /\ Select(j, "none")
    /\ cron_day' = IF j = "expiry_alerts_daily" THEN today ELSE cron_day
    /\ UNCHANGED <<users, medicines, files, session, pending, resp, today, outbox,
                   next_uuid, env>>

\* GET /run-expiry-test starts its scan
StartRunExpiryTest(c) ==
    IF ~login_required(c) THEN Unauthorized(c, "run_expiry_test")
    ELSE /\ Select("run_expiry_test", c)
         /\ UNCHANGED <<users, medicines, files, session, pending, resp, today, outbox,
                        next_uuid, env, cron_day>>

\* the response of /run-expiry-test when its scan has returned or raised (lines 360-365)
ScanResponse(j, flash) ==
    IF j = "run_expiry_test"
    THEN Response("run_expiry_test", jobs[j].client, "redirect:view_medicines", flash, <<>>)
    ELSE resp

\* lines 128-144 and 159-175: one iteration up to mail.send
ScanSend(j, outcome) ==
    LET job == jobs[j]
        cur == Current(job)
        rows == Row(job, cur.med)
    IN  /\ job.pc = "loop"
        /\ job.warning # <<>> \/ job.expired # <<>>
        /\ UNCHANGED <<users, medicines, files, session, pending, today, next_uuid,
                       scans, env, cron_day>>
        /\ IF rows = {}
           THEN \* the row is gone: ObjectDeletedError at line 128 or 159, outside the try
                /\ jobs' = [jobs EXCEPT ![j] = Idle]
                /\ resp' = ScanResponse(j, "Error running expiry test")
                /\ UNCHANGED outbox
           ELSE LET med == CHOOSE r \in rows : TRUE
                IN  /\ UNCHANGED resp
                    /\ IF Attempted({med}) = {}
                       THEN \* continue (lines 131, 136, 162, 167)
                            /\ jobs' = [jobs EXCEPT ![j] = Continue(job, job.fresh)]
                            /\ UNCHANGED outbox
                       ELSE IF outcome = "send_error"
                       THEN /\ jobs' = [jobs EXCEPT ![j].pc = "except"]
                            /\ UNCHANGED outbox
                       ELSE /\ outbox' = Deliver(outbox, {Email(med, cur.kind)})
                            /\ jobs' = [jobs EXCEPT ![j].pc = "sent"]

\* lines 145-146 and 176-177: the flag and its commit, an UPDATE of the row of that id
ScanCommit(j, outcome) ==
    LET job == jobs[j]
        cur == Current(job)
    IN  /\ job.pc = "sent"
        /\ UNCHANGED <<users, files, session, pending, resp, today, outbox, next_uuid,
                       scans, env, cron_day>>
        /\ IF outcome = "commit_error" \/ ~\E r \in medicines : r.id = cur.med.id
           THEN \* the commit raises (StaleDataError when the UPDATE matches no row)
                /\ jobs' = [jobs EXCEPT ![j].pc = "except"]
                /\ UNCHANGED medicines
           ELSE /\ medicines' = {IF r.id = cur.med.id THEN SetFlag(r, cur.kind) ELSE r :
                                   r \in medicines}
                /\ jobs' = [jobs EXCEPT ![j] = Continue(job, FALSE)]

\* the handler committing the flag instead of rolling back
ScanExceptCommit(j) ==
    /\ jobs[j].pc = "except"
    /\ medicines' = {IF r.id = Current(jobs[j]).med.id THEN SetFlag(r, Current(jobs[j]).kind)
                     ELSE r : r \in medicines}
    /\ jobs' = [jobs EXCEPT ![j] = except_Exception(jobs[j])]
    /\ UNCHANGED <<users, files, session, pending, resp, today, outbox,
                   next_uuid, scans, env, cron_day>>

\* lines 148-155 and 179-186: the handler
ScanExcept(j) ==
    /\ jobs[j].pc = "except"
    /\ jobs' = [jobs EXCEPT ![j] = except_Exception(jobs[j])]
    /\ UNCHANGED <<users, medicines, files, session, pending, resp, today, outbox,
                   next_uuid, scans, env, cron_day>>

\* both loops are through: send_expiry_alerts returns
ScanEnd(j) ==
    /\ jobs[j].pc = "loop"
    /\ jobs[j].warning = <<>>
    /\ jobs[j].expired = <<>>
    /\ jobs' = [jobs EXCEPT ![j] = Idle]
    /\ resp' = ScanResponse(j, "Manually triggered expiry alerts")
    /\ UNCHANGED <<users, medicines, files, session, pending, today, outbox,
                   next_uuid, scans, env, cron_day>>

(***************************************************************************)
(* Form inputs.                                                            *)
(***************************************************************************)
s_Al == <<"A","l">>
s_al == <<"a","l">>
s_bo == <<"b","o">>
s_al_padded == <<" ","a","l"," ">>
e_a == <<"a","@","x",".","i">>
e_A == <<"A","@","X",".","i">>
e_b == <<"b","@","x",".","i">>
e_bad == <<"a",".","x">>
pw_secret == <<"s","e","c","r","e","t">>
pw_passwd == <<"p","a","s","s","w","d">>
pw_short == <<"a","b","c">>

SignupUsernames == {s_Al, s_al, <<>>}
SignupEmails == {e_A, e_b, e_bad}
SignupPasswords == {pw_secret, pw_short}
LoginInputs == {s_Al, s_al_padded, e_A, e_b}
LoginPasswords == {pw_secret, pw_passwd}

(***************************************************************************)
(* SpecAuth: signup, login and logout from two browsers.                   *)
(***************************************************************************)
DefaultEnv == [cwd_at_root |-> TRUE, mail_configured |-> TRUE]

InitAuth == Init /\ env = DefaultEnv

NextAuth ==
    \/ \E c \in DOMAIN session, u \in SignupUsernames, e \in SignupEmails, p \in SignupPasswords :
         SignupQuery(c, u, e, p)
    \/ \E c \in DOMAIN session : SignupCommit(c)
    \/ \E c \in DOMAIN session, i \in LoginInputs, p \in LoginPasswords : Login(c, i, p)
    \/ \E c \in DOMAIN session : Logout(c)

SpecAuth == InitAuth /\ [][NextAuth]_vars

(***************************************************************************)
(* Properties of SpecAuth.                                                 *)
(***************************************************************************)
\* C4: no two user rows share a username or an email; a signup that reaches its
\* commit with a username or email some row already has (a concurrent duplicate)
\* creates no user and fails, one that is fresh at its commit adds exactly its own
\* row, and a signup whose query finds the username or email is refused.
C4_SignupUniqueness ==
    /\ [](\A u1, u2 \in users :
            (u1.username = u2.username \/ u1.email = u2.email \/ u1.id = u2.id) => u1 = u2)
    /\ [][(resp'.op = "signup" \/ pending' # pending) => \A c \in DOMAIN session :
            /\ (pending[c].active /\ SignupCommit(c)) =>
                 IF \E r \in users : r.username = pending[c].username \/ r.email = pending[c].email
                 THEN users' = users /\ resp'.status = "500"
                 ELSE /\ Cardinality(users') = Cardinality(users) + 1
                      /\ \E r \in users' \ users :
                           r.username = pending[c].username /\ r.email = pending[c].email
                      /\ resp'.status = "redirect:login"
            /\ \A u \in SignupUsernames, e \in SignupEmails :
                 ( /\ ~pending[c].active
                   /\ \E r \in users : r.username = strip(u) \/ r.email = lower(strip(e))
                   /\ SignupQuery(c, u, e, pw_secret) ) =>
                      /\ users' = users
                      /\ ~pending'[c].active
                      /\ resp'.status = "signup.html"]_vars

\* C4 witness: of two signups in flight with the same email, one was committed and the
\* other has just failed at its commit
C4_Witness ==
    /\ resp.op = "signup"
    /\ resp.status = "500"
    /\ Cardinality(users) = 1

\* C8: for every user row, a login with the row's username and password, and a login
\* with the row's email in either letter case and its password, sets the session
\* principal to that row's id, username and email.
C8_LoginByUsernameOrEmail ==
    [][\A c \in DOMAIN session, r \in users, i \in LoginInputs :
         ( /\ (i = r.username \/ lower(i) = r.email)
           /\ Login(c, i, r.password.digest_of) ) =>
              /\ session'[c] = Principal(r)
              /\ resp'.status = "redirect:view_medicines"]_vars

(***************************************************************************)
(* SpecCrud: two users sign up, log in, and add, view and delete           *)
(* medicines.                                                              *)
(***************************************************************************)
t_a == <<"a">>
t_blank == <<" ">>
t_f == <<"f">>
t_u == <<"u">>
d_01 == DatePrefix \o <<"0","1">>
d_02 == DatePrefix \o <<"0","2">>
d_1 == DatePrefix \o <<"1">>
d_2 == DatePrefix \o <<"2">>
d_03 == DatePrefix \o <<"0","3">>
d_bad == DatePrefix \o <<"0","x">>

\* (name, manufacturing date, expiry date): accepted; expiry equal to manufacturing;
\* expiry before manufacturing; unparseable expiry; blank name
CrudForms ==
    { <<t_a, d_01, d_02>>, <<t_a, d_2, d_02>>, <<t_a, d_2, d_1>>,
      <<t_a, d_01, d_bad>>, <<t_blank, d_01, d_02>> }

\* the ids a request may name: those ever given out, and one more
MedicineIds == 1..(MaxMeds + 1)

\* the row a successful signup(username, email, password) commits (src/app.py:214-228)
Registered(id, username, email, password) ==
    [id |-> id, username |-> strip(username), email |-> lower(strip(email)),
     password |-> generate_password_hash(strip(password))]

\* two users have signed up; one browser
InitCrud ==
    /\ users = {Registered(1, s_al, e_a, pw_secret), Registered(2, s_bo, e_b, pw_secret)}
    /\ medicines = {}
    /\ files = {}
    /\ session = [c \in {"c1"} |-> NoSession]
    /\ pending = [c \in {"c1"} |-> NoRequest]
    /\ resp = NoResp
    /\ today = 1
    /\ outbox = EmptyOutbox
    /\ next_uuid = 0
    /\ scans = 0
    /\ jobs = [j \in Jobs |-> Idle]
    /\ cron_day = 0
    /\ env \in {e \in Environments : e.mail_configured}

NextCrud ==
    \/ \E c \in DOMAIN session, i \in {s_al, s_bo} : Login(c, i, pw_secret)
    \/ \E c \in DOMAIN session : Logout(c)
    \/ \E c \in DOMAIN session, f \in CrudForms, o \in AddOutcomes :
         AddMedicine(c, f[1], t_f, f[2], f[3], t_u, o)
    \/ \E c \in DOMAIN session : ViewMedicines(c)
    \/ \E c \in DOMAIN session, id \in MedicineIds : ViewMedicine(c, id)
    \/ \E c \in DOMAIN session, id \in MedicineIds, o \in DeleteOutcomes : DeleteMedicine(c, id, o)

SpecCrud == InitCrud /\ [][NextCrud]_vars

(***************************************************************************)
(* Properties of SpecCrud.                                                 *)
(***************************************************************************)
QrFileOf(med, fs) == {f \in fs : f.dir = file_path(med.qr_code).dir /\ f.name = med.qr_code}

\* C2: a view or a delete of a medicine issued under the session of a user who does
\* not own it is answered 403, does not return the medicine, and leaves the
\* medicine rows and the QR files as they are.
C2_Ownership ==
    [][\A c \in DOMAIN session, m \in medicines :
         (session[c].logged_in /\ m.user_id # session[c].user_id) =>
            /\ ViewMedicine(c, m.id) =>
                 /\ resp'.status = "403"
                 /\ resp'.body = <<>>
                 /\ UNCHANGED <<medicines, files>>
            /\ \A o \in DeleteOutcomes :
                 DeleteMedicine(c, m.id, o) =>
                    /\ resp'.status = "403"
                    /\ resp'.body = <<>>
                    /\ UNCHANGED <<medicines, files>>]_vars

\* C2 witness: a delete was answered 403 while the medicine and its QR file exist
C2_Witness ==
    /\ resp.op = "delete_medicine"
    /\ resp.status = "403"
    /\ \E m \in medicines :
         /\ m.user_id # session[resp.client].user_id
         /\ QrFileOf(m, files) # {}

GatedStep(c, op) ==
    \/ op = "add_medicine" /\ \E f \in CrudForms, o \in AddOutcomes :
                                 AddMedicine(c, f[1], t_f, f[2], f[3], t_u, o)
    \/ op = "view_medicines" /\ ViewMedicines(c)
    \/ op = "view_medicine" /\ \E id \in MedicineIds : ViewMedicine(c, id)
    \/ op = "delete_medicine" /\ \E id \in MedicineIds, o \in DeleteOutcomes : DeleteMedicine(c, id, o)

Rejected(c, op) ==
    /\ resp' = Response(op, c, "redirect:login", "Please log in first.", <<>>)
    /\ UNCHANGED <<users, medicines, files, session, outbox>>

\* C3 as stated: /logout, /add-medicine, /medicines, /medicine/<id> and
\* /medicine/<id>/delete, requested without a session principal, are each answered by
\* the redirect to login and change no table, file or session.
C3_AuthGateWithLogout ==
    [][\A c \in DOMAIN session :
         ~session[c].logged_in =>
            /\ \A op \in {"add_medicine", "view_medicines", "view_medicine", "delete_medicine"} :
                 GatedStep(c, op) => Rejected(c, op)
            /\ Logout(c) => Rejected(c, "logout")]_vars

\* C3 as amended: the four routes wrapped by login_required are answered by the
\* redirect to login and change nothing; /logout is not wrapped: without a principal
\* it runs, leaves the session empty, changes no table or file and redirects to home.
C3_AuthGate ==
    [][\A c \in DOMAIN session :
         ~session[c].logged_in =>
            /\ \A op \in {"add_medicine", "view_medicines", "view_medicine", "delete_medicine"} :
                 GatedStep(c, op) => Rejected(c, op)
            /\ Logout(c) =>
                 /\ resp'.status = "redirect:home"
                 /\ session'[c] = NoSession
                 /\ UNCHANGED <<users, medicines, files, outbox>>]_vars

\* C3 witness: a delete without a principal was redirected to login while a medicine exists
C3_Witness ==
    /\ resp.op = "delete_medicine"
    /\ resp.status = "redirect:login"
    /\ ~session[resp.client].logged_in
    /\ medicines # {}

\* the forms of SpecCrud that are complete and parse, with the expiry date on or before
\* the manufacturing date
OrderErrorForms ==
    {f \in CrudForms :
        /\ strip(f[1]) # <<>>
        /\ strptime(f[2]) # ValueError
        /\ strptime(f[3]) # ValueError
        /\ strptime(f[3]) <= strptime(f[2])}

\* C5: an add-medicine request whose expiry date is on or before its manufacturing
\* date is answered with the order error and adds no row and no QR file; every
\* medicine row has its expiry date after its manufacturing date.
C5_DateOrder ==
    /\ [](\A m \in medicines : m.expiry_date > m.manufacturing_date)
    /\ [][resp'.op = "add_medicine" =>
            \A c \in DOMAIN session, f \in OrderErrorForms, o \in AddOutcomes :
              (session[c].logged_in /\ AddMedicine(c, f[1], t_f, f[2], f[3], t_u, o)) =>
                 /\ resp'.flash = "Expiry must be after manufacturing date."
                 /\ UNCHANGED <<medicines, files, next_uuid>>]_vars

\* C5 witness: the order error was answered, and an accepted medicine exists
C5_Witness ==
    /\ resp.flash = "Expiry must be after manufacturing date."
    /\ medicines # {}

\* C6: when the owner's delete reports success the row and the QR image file are
\* both gone, and a delete of an id that has no row is answered 404 and changes nothing.
C6_DeleteRemovesBoth ==
    [][\A c \in DOMAIN session :
         /\ \A m \in medicines, o \in DeleteOutcomes :
              ( /\ session[c].logged_in
                /\ m.user_id = session[c].user_id
                /\ DeleteMedicine(c, m.id, o)
                /\ resp'.flash = "Medicine deleted." ) =>
                   /\ m \notin medicines'
                   /\ QrFileOf(m, files') = {}
         /\ \A id \in MedicineIds, o \in DeleteOutcomes :
              ( /\ session[c].logged_in
                /\ ~\E m \in medicines : m.id = id
                /\ DeleteMedicine(c, id, o) ) =>
                   /\ resp'.status = "404"
                   /\ UNCHANGED <<medicines, files>>]_vars

\* C7: when the owner deletes a medicine and the removal of its QR image file
\* raises, the medicine row is deleted all the same.
C7_RemoveErrorKeepsDelete ==
    [][\A c \in DOMAIN session, m \in medicines :
         ( /\ session[c].logged_in
           /\ m.user_id = session[c].user_id
           /\ path_exists(relative_path(m.qr_code))
           /\ DeleteMedicine(c, m.id, "remove_error") ) =>
              m \notin medicines']_vars

\* C19: after every add-medicine and delete request, failed ones included, the QR
\* image files on disk are exactly the files of the medicine rows: no file without a
\* row and no row without its file.
C19_FilesMatchRows ==
    {[dir |-> f.dir, name |-> f.name] : f \in files} = {file_path(m.qr_code) : m \in medicines}

(***************************************************************************)
(* SpecList: two users log in from one browser, add medicines of two       *)
(* expiry dates, delete them and list them.                                *)
(***************************************************************************)
ListExpDates == {d_02, d_03}

InitList == InitCrud /\ env = DefaultEnv

NextList ==
    \/ \E c \in DOMAIN session, i \in {s_al, s_bo} : Login(c, i, pw_secret)
    \/ \E c \in DOMAIN session, e \in ListExpDates, o \in {"ok", "commit_error"} :
         AddMedicine(c, t_a, t_f, d_01, e, t_u, o)
    \/ \E c \in DOMAIN session : ViewMedicines(c)
    \/ \E c \in DOMAIN session, id \in MedicineIds : DeleteMedicine(c, id, "ok")

SpecList == InitList /\ [][NextList]_vars

(***************************************************************************)
(* Properties of SpecList.                                                 *)
(***************************************************************************)
\* C17: GET /medicines of a logged-in user returns exactly the medicine rows of that
\* user, each once, in ascending order of expiry date; and the listing that follows
\* the user's successful add-medicine holds the new medicine with both alert flags
\* false.
C17_Listing ==
    [][resp'.op = "view_medicines" =>
         \A c \in DOMAIN session :
            (session[c].logged_in /\ ViewMedicines(c)) =>
               /\ Range(resp'.body) = {m \in medicines : m.user_id = session[c].user_id}
               /\ Len(resp'.body) = Cardinality(Range(resp'.body))
               /\ \A i, j \in DOMAIN resp'.body :
                    i < j => resp'.body[i].expiry_date <= resp'.body[j].expiry_date
               /\ ( /\ resp.op = "add_medicine"
                    /\ resp.client = c
                    /\ resp.flash = "Medicine added successfully." ) =>
                       \E i \in DOMAIN resp'.body :
                          /\ resp'.body[i].qr_code = next_uuid
                          /\ ~resp'.body[i].expiry_alert_sent_prior
                          /\ ~resp'.body[i].expiry_alert_sent_expiry_day]_vars

\* C17 witness: a listing shows the two medicines of a user, the one added later
\* first, as it expires earlier
C17_Witness ==
    /\ resp.op = "view_medicines"
    /\ Len(resp.body) = 2
    /\ resp.body[1].id > resp.body[2].id
    /\ resp.body[1].expiry_date < resp.body[2].expiry_date
    /\ \A i \in DOMAIN resp.body : resp.body[i].user_id = session[resp.client].user_id

(***************************************************************************)
(* SpecAlert: a logged-in user adds and deletes medicines while the days   *)
(* pass and the alert scan runs, from the scheduler and from               *)
(* /run-expiry-test.                                                       *)
(***************************************************************************)
AlertExpDates == {d_02, d_03}

InitAlert ==
    /\ users = {Registered(1, s_al, e_a, pw_secret)}
    /\ medicines = {}
    /\ files = {}
    /\ session = [c \in {"c1"} |-> Principal(Registered(1, s_al, e_a, pw_secret))]
    /\ pending = [c \in {"c1"} |-> NoRequest]
    /\ resp = NoResp
    /\ today = 1
    /\ outbox = EmptyOutbox
    /\ next_uuid = 0
    /\ scans = 0
    /\ jobs = [j \in Jobs |-> Idle]
    /\ cron_day = 0
    /\ env \in {e \in Environments : e.cwd_at_root}

NextAlert ==
    \/ \E c \in DOMAIN session, e \in AlertExpDates : AddMedicine(c, t_a, t_f, d_01, e, t_u, "ok")
    \/ \E c \in DOMAIN session, id \in MedicineIds : DeleteMedicine(c, id, "ok")
    \/ ScheduledScan
    \/ \E c \in DOMAIN session : RunExpiryTest(c)
    \/ AdvanceDay

SpecAlert == InitAlert /\ [][NextAlert]_vars

(***************************************************************************)
(* Properties of SpecAlert.                                                *)
(***************************************************************************)
\* C1: for every medicine and every day, the scans of that day send in total at most
\* one "expires tomorrow" e-mail and at most one "has expired" e-mail.
C1_OneAlertPerDay ==
    \A e \in DOMAIN outbox : outbox[e] <= 1

\* the e-mails the scan of this step sent for medicine m
SentNow(m, kind) ==
    {e \in DOMAIN outbox' : /\ e.med = m.qr_code
                            /\ e.kind = kind
                            /\ Copies(outbox', e) > Copies(outbox, e)}

\* the number of them
SentCount(m, kind) ==
    LET e == CHOOSE x \in SentNow(m, kind) : TRUE
    IN  IF SentNow(m, kind) = {} THEN 0 ELSE Copies(outbox', e) - Copies(outbox, e)

RowAfter(m) == {r \in medicines' : r.id = m.id}

\* C10: a scan on the day before the expiry date of a medicine whose prior flag is
\* false, with the send succeeding, sends one "expires tomorrow" e-mail to the owner
\* and sets expiry_alert_sent_prior; a scan on the expiry date with the expiry-day
\* flag false, with the send succeeding, sends one "has expired" e-mail and sets
\* expiry_alert_sent_expiry_day, whatever the prior flag is.
C10_AlertTransitions ==
    [][\A m \in medicines :
         /\ ( /\ scans' = scans + 1
              /\ m.expiry_date = today + 1
              /\ ~m.expiry_alert_sent_prior
              /\ SentNow(m, "expires_tomorrow") # {} ) =>
                 /\ Cardinality(SentNow(m, "expires_tomorrow")) = 1
                 /\ SentCount(m, "expires_tomorrow") = 1
                 /\ \A e \in SentNow(m, "expires_tomorrow") :
                      \E u \in users : u.id = m.user_id /\ u.email = e.to
                 /\ \A r \in RowAfter(m) : r.expiry_alert_sent_prior
         /\ ( /\ scans' = scans + 1
              /\ m.expiry_date = today
              /\ ~m.expiry_alert_sent_expiry_day
              /\ SentNow(m, "has_expired") # {} ) =>
                 /\ Cardinality(SentNow(m, "has_expired")) = 1
                 /\ SentCount(m, "has_expired") = 1
                 /\ \A e \in SentNow(m, "has_expired") :
                      \E u \in users : u.id = m.user_id /\ u.email = e.to
                 /\ \A r \in RowAfter(m) : r.expiry_alert_sent_expiry_day]_vars

\* C15: in every state between scans, a flag of a medicine is true if and only if
\* the e-mail of that alert has been sent for the medicine.
C15_FlagIffSent ==
    \A m \in medicines :
        /\ m.expiry_alert_sent_prior <=>
             \E e \in DOMAIN outbox : e.med = m.qr_code /\ e.kind = "expires_tomorrow"
        /\ m.expiry_alert_sent_expiry_day <=>
             \E e \in DOMAIN outbox : e.med = m.qr_code /\ e.kind = "has_expired"

(***************************************************************************)
(* SpecFlags: a logged-in user adds and deletes medicines while the days   *)
(* pass and the scheduler runs the alert scan.                             *)
(***************************************************************************)
NextFlags ==
    \/ \E c \in DOMAIN session, e \in AlertExpDates : AddMedicine(c, t_a, t_f, d_01, e, t_u, "ok")
    \/ \E c \in DOMAIN session, id \in MedicineIds : DeleteMedicine(c, id, "ok")
    \/ ScheduledScan
    \/ AdvanceDay

SpecFlags == InitAlert /\ [][NextFlags]_vars

(***************************************************************************)
(* Properties of SpecFlags.                                                *)
(***************************************************************************)
\* C12: for every medicine, a flag that is true in the table stays true in every
\* later state in which the medicine exists, over scans with failed sends and failed
\* commits, creations and deletions; and a step that is not an alert scan leaves both
\* flags of every medicine that exists before and after it as they are.
C12_FlagsMonotonic ==
    [][\A m \in medicines, r \in medicines' :
         (r.id = m.id /\ r.qr_code = m.qr_code) =>
            /\ m.expiry_alert_sent_prior => r.expiry_alert_sent_prior
            /\ m.expiry_alert_sent_expiry_day => r.expiry_alert_sent_expiry_day
            /\ scans' = scans =>
                 /\ r.expiry_alert_sent_prior = m.expiry_alert_sent_prior
                 /\ r.expiry_alert_sent_expiry_day = m.expiry_alert_sent_expiry_day]_vars

\* C12 witness: a medicine has had its prior flag set, a later scan on its expiry date
\* failed for it, and then another medicine was deleted: the prior flag is still true
C12_Witness ==
    /\ resp.flash = "Medicine deleted."
    /\ scans = 2
    /\ \E m \in medicines :
         /\ m.expiry_date = today
         /\ m.expiry_alert_sent_prior
         /\ ~m.expiry_alert_sent_expiry_day

(***************************************************************************)
(* SpecQr: a logged-in user adds medicines whose free-text fields hold     *)
(* reserved URL characters, and the QR images are scanned.                 *)
(***************************************************************************)
\* (name, factory name, uses)
QrForms ==
    { << <<"a","&","b">>, <<"#","1">>, <<"1","+","1">> >>,
      << <<"x","=","1">>, <<"a","?","b">>, <<"5","%">> >>,
      << <<"p"," ","q">>, <<"c","/","d">>, <<"%","2","6">> >>,
      << <<"a">>, <<"f">>, <<"u","&","u","s","e","s","=","x">> >> }
QrMfgDates == {d_01, d_1}
QrExpDates == {d_02, d_2, d_03}

InitQr ==
    /\ users = {Registered(1, s_al, e_a, pw_secret)}
    /\ medicines = {}
    /\ files = {}
    /\ session = [c \in {"c1"} |-> Principal(Registered(1, s_al, e_a, pw_secret))]
    /\ pending = [c \in {"c1"} |-> NoRequest]
    /\ resp = NoResp
    /\ today = 1
    /\ outbox = EmptyOutbox
    /\ next_uuid = 0
    /\ scans = 0
    /\ jobs = [j \in Jobs |-> Idle]
    /\ cron_day = 0
    /\ env = DefaultEnv

NextQr ==
    \/ \E c \in DOMAIN session, f \in QrForms, m \in QrMfgDates, e \in QrExpDates :
         AddMedicine(c, f[1], f[2], m, e, f[3], "ok")
    \/ \E c \in DOMAIN session, f \in files : QrScan(c, f.content)

SpecQr == InitQr /\ [][NextQr]_vars

(***************************************************************************)
(* Properties of SpecQr.                                                   *)
(***************************************************************************)
\* the five fields of a medicine as the scan page shows them
ScanFields(m) ==
    [name |-> m.name, factory_name |-> m.factory_name,
     manufacturing_date |-> isoformat(m.manufacturing_date),
     expiry_date |-> isoformat(m.expiry_date), uses |-> m.uses]

\* C9: scanning the QR image of an accepted medicine shows exactly its name, factory
\* name, manufacturing date, expiry date and uses, also when the free-text fields
\* hold '&', '=', '#', '?', '+', '%', '/' or spaces.
C9_QrRoundTrip ==
    [][\A c \in DOMAIN session, f \in files, m \in medicines :
         (m.qr_code = f.name /\ QrScan(c, f.content)) =>
            resp'.body = <<ScanFields(m)>>]_vars

\* C9 witness: the scan of the QR image of a medicine whose fields hold '&', '#' and
\* '+' has shown these fields
C9_Witness ==
    /\ resp.op = "qr_scan_handler"
    /\ \E m \in medicines :
         /\ resp.body = <<ScanFields(m)>>
         /\ "&" \in Range(m.name)
         /\ "#" \in Range(m.factory_name)
         /\ "+" \in Range(m.uses)

(***************************************************************************)
(* SpecOverlap: two medicines are stored; the two jobs of the scheduler    *)
(* scan them, each step by step, while the days pass.                      *)
(***************************************************************************)
\* the row a successful add_medicine of user_id commits (src/app.py:286-295)
Stored(id, filename, name, mfg, exp, user_id) ==
    [id |-> id, name |-> strip(name), factory_name |-> t_f,
     manufacturing_date |-> strptime(mfg), expiry_date |-> strptime(exp), uses |-> t_u,
     qr_code |-> filename,
     expiry_alert_sent_prior |-> FALSE,
     expiry_alert_sent_expiry_day |-> FALSE,
     user_id |-> user_id]

\* the QR image written for that row (src/app.py:277-284)
StoredFile(med) ==
    [dir |-> file_path(med.qr_code).dir, name |-> med.qr_code,
     content |-> medicine_url(med.name, med.factory_name, med.manufacturing_date,
                              med.expiry_date, med.uses)]

\* a medicine that expires on day 2 and one that expires on day 3
StoredMedicines ==
    {Stored(1, 1, t_a, d_01, d_02, 1), Stored(2, 2, t_a, d_01, d_03, 1)}

InitOverlap ==
    /\ users = {Registered(1, s_al, e_a, pw_secret)}
    /\ medicines = StoredMedicines
    /\ files = {StoredFile(m) : m \in StoredMedicines}
    /\ session = [c \in {"c1"} |-> NoSession]
    /\ pending = [c \in {"c1"} |-> NoRequest]
    /\ resp = NoResp
    /\ today = 1
    /\ outbox = EmptyOutbox
    /\ next_uuid = Cardinality(StoredMedicines)
    /\ scans = 0
    /\ jobs = [j \in {"expiry_alerts_immediate", "expiry_alerts_daily"} |-> Idle]
    /\ cron_day = 0
    /\ env \in {e \in Environments : e.cwd_at_root}

NextOverlap ==
    \/ \E j \in DOMAIN jobs : StartJob(j)
    \/ \E j \in DOMAIN jobs, o \in SendOutcomes : ScanSend(j, o)
    \/ \E j \in DOMAIN jobs, o \in CommitOutcomes : ScanCommit(j, o)
    \/ \E j \in DOMAIN jobs : ScanExcept(j)
    \/ \E j \in DOMAIN jobs : ScanEnd(j)
    \/ AdvanceDay

SpecOverlap == InitOverlap /\ [][NextOverlap]_vars

(***************************************************************************)
(* Properties of SpecOverlap.                                              *)
(***************************************************************************)
\* job j has just had an e-mail accepted by mail.send
SendStep(j) == jobs[j].pc = "loop" /\ jobs'[j].pc = "sent"

\* C16: a scan run on day d sends an e-mail only for a medicine whose expiry date is
\* d + 1 (the "expires tomorrow" e-mail) or d (the "has expired" e-mail), so a medicine
\* that had expired before the first scan gets none; and a scan, on the day it was
\* started, sends no e-mail for a medicine whose expiry-day flag is true.
C16_ExactDatesOnly ==
    [][\A j \in DOMAIN jobs :
         SendStep(j) =>
            \A m \in medicines :
               m.id = Current(jobs[j]).med.id =>
                  /\ Copies(outbox', Email(m, Current(jobs[j]).kind))
                       = Copies(outbox, Email(m, Current(jobs[j]).kind)) + 1
                  /\ Current(jobs[j]).kind = "expires_tomorrow" =>
                       m.expiry_date = jobs[j].today + 1
                  /\ Current(jobs[j]).kind = "has_expired" =>
                       m.expiry_date = jobs[j].today
                  /\ jobs[j].today = today => ~m.expiry_alert_sent_expiry_day]_vars

\* C18: under every interleaving of two scans, at most one "expires tomorrow" e-mail
\* and at most one "has expired" e-mail is sent for a medicine.
C18_NoDuplicateAlerts ==
    \A m \in medicines, kind \in {"expires_tomorrow", "has_expired"} :
        Cardinality({e \in DOMAIN outbox : e.med = m.qr_code /\ e.kind = kind}) <= 1
        /\ \A e \in DOMAIN outbox : (e.med = m.qr_code /\ e.kind = kind) => outbox[e] <= 1

(***************************************************************************)
(* SpecScan: three medicines are stored; a logged-in user requests         *)
(* /run-expiry-test, whose scan runs step by step, while the days pass.    *)
(***************************************************************************)
\* two medicines that expire on day 2 and one that expires on day 3
ScanMedicines == StoredMedicines \cup {Stored(3, 3, t_a, d_01, d_02, 1)}

InitScan ==
    /\ users = {Registered(1, s_al, e_a, pw_secret)}
    /\ medicines = ScanMedicines
    /\ files = {StoredFile(m) : m \in ScanMedicines}
    /\ session = [c \in {"c1"} |-> Principal(Registered(1, s_al, e_a, pw_secret))]
    /\ pending = [c \in {"c1"} |-> NoRequest]
    /\ resp = NoResp
    /\ today = 1
    /\ outbox = EmptyOutbox
    /\ next_uuid = Cardinality(ScanMedicines)
    /\ scans = 0
    /\ jobs = [j \in {"run_expiry_test"} |-> Idle]
    /\ cron_day = 0
    /\ env \in {e \in Environments : e.cwd_at_root}

NextScan ==
    \/ \E c \in DOMAIN session : StartRunExpiryTest(c)
    \/ \E j \in DOMAIN jobs, o \in SendOutcomes : ScanSend(j, o)
    \/ \E j \in DOMAIN jobs, o \in CommitOutcomes : ScanCommit(j, o)
    \/ \E j \in DOMAIN jobs : ScanExcept(j)
    \/ \E j \in DOMAIN jobs : ScanEnd(j)
    \/ AdvanceDay

SpecScan == InitScan /\ [][NextScan]_vars

(***************************************************************************)
(* Properties of SpecScan.                                                 *)
(***************************************************************************)
\* the medicines a scan has selected and not yet come to, the one it is at first
Todo(job) == job.warning \o job.expired

Flag(row, kind) ==
    IF kind = "expires_tomorrow" THEN row.expiry_alert_sent_prior
    ELSE row.expiry_alert_sent_expiry_day

\* C13: when the iteration of a selected medicine ends without a send (mail.send
\* raises, or the iteration is skipped for missing mail credentials or a missing
\* owner address), and when the handler rolls back, the table of medicines is left as
\* it is: the flag of that alert of that medicine is false afterwards and no flag of
\* any other medicine changes.
C13_FailedSendKeepsFlag ==
    [][\A j \in DOMAIN jobs :
         ( /\ jobs[j].pc \in {"loop", "except"}
           /\ Todo(jobs[j]) # <<>>
           /\ jobs'[j] # jobs[j]
           /\ jobs'[j].pc # "sent" ) =>
              /\ medicines' = medicines
              /\ \A r \in medicines' :
                   r.id = Current(jobs[j]).med.id => ~Flag(r, Current(jobs[j]).kind)]_vars

\* C13 witness: mail.send has raised for a medicine while a flag of another medicine
\* is true in the table, and the handler has left both as they were
C13_Witness ==
    \E j \in DOMAIN jobs, m \in medicines, r \in medicines :
        /\ jobs[j].pc = "loop"
        /\ jobs[j].today = m.expiry_date
        /\ m.id \notin {x.id : x \in Range(Todo(jobs[j]))}
        /\ ~m.expiry_alert_sent_expiry_day
        /\ ~\E e \in DOMAIN outbox : e.med = m.qr_code /\ e.kind = "has_expired"
        /\ env.mail_configured
        /\ r.id # m.id
        /\ r.expiry_alert_sent_prior
        /\ scans = 2

(***************************************************************************)
(* SpecRetry: two medicines are stored; the scheduler is running, so that  *)
(* the cron trigger of expiry_alerts_daily fires on every day, and its     *)
(* scan is the only one.                                                   *)
(***************************************************************************)
InitRetry ==
    /\ users = {Registered(1, s_al, e_a, pw_secret)}
    /\ medicines = StoredMedicines
    /\ files = {StoredFile(m) : m \in StoredMedicines}
    /\ session = [c \in {"c1"} |-> NoSession]
    /\ pending = [c \in {"c1"} |-> NoRequest]
    /\ resp = NoResp
    /\ today = 1
    /\ outbox = EmptyOutbox
    /\ next_uuid = Cardinality(StoredMedicines)
    /\ scans = 0
    /\ jobs = [j \in {"expiry_alerts_daily"} |-> Idle]
    /\ cron_day = 0
    /\ env \in {e \in Environments : e.cwd_at_root}

NextRetry ==
    \/ \E j \in DOMAIN jobs : StartJob(j)
    \/ \E j \in DOMAIN jobs, o \in SendOutcomes : ScanSend(j, o)
    \/ \E j \in DOMAIN jobs, o \in CommitOutcomes : ScanCommit(j, o)
    \/ \E j \in DOMAIN jobs : ScanExcept(j)
    \/ \E j \in DOMAIN jobs : ScanEnd(j)
    \/ cron_day = today /\ AdvanceDay

SpecRetry == InitRetry /\ [][NextRetry]_vars

(***************************************************************************)
(* Properties of SpecRetry.                                                *)
(***************************************************************************)
\* In SpecRetry the medicines exist from the first day, the daily scan is the only
\* scan and has run on every day that has ended.  So when the daily job is about to
\* start on the expiry date of a medicine whose prior flag is false and for which no
\* "expires tomorrow" e-mail was accepted, with the mail credentials configured,
\* yesterday's scan selected the medicine and mail.send raised for it.
WarningFailedYesterday(m) ==
    /\ jobs["expiry_alerts_daily"].pc = "idle"
    /\ cron_day = today - 1
    /\ m.expiry_date = today
    /\ ~m.expiry_alert_sent_prior
    /\ env.mail_configured
    /\ ~\E e \in DOMAIN outbox : e.med = m.qr_code /\ e.kind = "expires_tomorrow"

\* C14: when the send of the "expires tomorrow" alert of a medicine has failed in
\* the daily scan, the next run of the daily job selects the medicine for that alert
\* again.
C14_RetryNextDailyScan ==
    [][\A m \in medicines :
         (WarningFailedYesterday(m) /\ StartJob("expiry_alerts_daily")) =>
            \E i \in DOMAIN jobs'["expiry_alerts_daily"].warning :
               jobs'["expiry_alerts_daily"].warning[i].id = m.id]_vars

(***************************************************************************)
(* SpecDaily: three medicines were stored before the first day; the        *)
(* scheduler is running, the daily scan is the only scan, every send and   *)
(* every commit succeeds, and the owner deletes medicines.                 *)
(***************************************************************************)
InitDaily ==
    /\ users = {Registered(1, s_al, e_a, pw_secret)}
    /\ medicines = ScanMedicines
    /\ files = {StoredFile(m) : m \in ScanMedicines}
    /\ session = [c \in {"c1"} |-> Principal(Registered(1, s_al, e_a, pw_secret))]
    /\ pending = [c \in {"c1"} |-> NoRequest]
    /\ resp = NoResp
    /\ today = 1
    /\ outbox = EmptyOutbox
    /\ next_uuid = Cardinality(ScanMedicines)
    /\ scans = 0
    /\ jobs = [j \in {"expiry_alerts_daily"} |-> Idle]
    /\ cron_day = 0
    /\ env = DefaultEnv

NextDaily ==
    \/ \E c \in DOMAIN session, id \in {m.id : m \in ScanMedicines} : DeleteMedicine(c, id, "ok")
    \/ StartJob("expiry_alerts_daily")
    \/ ScanSend("expiry_alerts_daily", "sent")
    \/ ScanCommit("expiry_alerts_daily", "ok")
    \/ ScanExcept("expiry_alerts_daily")
    \/ ScanEnd("expiry_alerts_daily")
    \/ cron_day = today /\ jobs["expiry_alerts_daily"].pc = "idle" /\ AdvanceDay

SpecDaily == InitDaily /\ [][NextDaily]_vars

(***************************************************************************)
(* Properties of SpecDaily.                                                *)
(***************************************************************************)
\* today's run of the daily job has returned
DailyScanDone == cron_day = today /\ jobs["expiry_alerts_daily"].pc = "idle"

\* C20: with the daily scan run on every day and every send and commit succeeding,
\* every medicine created before the day preceding its expiry date and not deleted
\* gets both flags set, the "expires tomorrow" e-mail before the "has expired"
\* e-mail.  An alert is sent only by the scan of its day, so: once the daily scan of
\* a day has returned, every medicine that expires tomorrow has the prior flag, and
\* every medicine that expires today has both flags and both e-mails, the "expires
\* tomorrow" one sent on an earlier day.
C20_AlertsDelivered ==
    DailyScanDone =>
       \A m \in medicines :
          /\ m.expiry_date = today + 1 => m.expiry_alert_sent_prior
          /\ m.expiry_date = today =>
               /\ m.expiry_alert_sent_prior
               /\ m.expiry_alert_sent_expiry_day
               /\ \E w, x \in DOMAIN outbox :
                    /\ w.med = m.qr_code /\ w.kind = "expires_tomorrow"
                    /\ x.med = m.qr_code /\ x.kind = "has_expired"
                    /\ w.day < x.day

(***************************************************************************)
(* The whole application.  The specifications above are this system       *)
(* started in a state it reaches and driven with a part of its requests    *)
(* and jobs.                                                               *)
(***************************************************************************)
Next ==
    \/ \E c \in DOMAIN session, u \in SignupUsernames \cup {s_bo}, e \in SignupEmails \cup {e_a},
          p \in SignupPasswords : SignupQuery(c, u, e, p)
    \/ \E c \in DOMAIN session : SignupCommit(c)
    \/ \E c \in DOMAIN session, i \in LoginInputs \cup {s_bo}, p \in LoginPasswords : Login(c, i, p)
    \/ \E c \in DOMAIN session : Logout(c)
    \/ \E c \in DOMAIN session, f \in QrForms \cup {<<t_a, t_f, t_u>>, <<t_blank, t_f, t_u>>},
          m \in QrMfgDates \cup {d_2}, e \in QrExpDates \cup {d_1, d_bad}, o \in AddOutcomes :
            AddMedicine(c, f[1], f[2], m, e, f[3], o)
    \/ \E c \in DOMAIN session : ViewMedicines(c)
    \/ \E c \in DOMAIN session, id \in MedicineIds : ViewMedicine(c, id)
    \/ \E c \in DOMAIN session, id \in MedicineIds, o \in DeleteOutcomes : DeleteMedicine(c, id, o)
    \/ \E c \in DOMAIN session, f \in files : QrScan(c, f.content)
    \/ ScheduledScan
    \/ \E c \in DOMAIN session : RunExpiryTest(c)
    \/ \E j \in DOMAIN jobs : StartJob(j)
    \/ \E c \in DOMAIN session : StartRunExpiryTest(c)
    \/ \E j \in DOMAIN jobs, o \in SendOutcomes : ScanSend(j, o)
    \/ \E j \in DOMAIN jobs, o \in CommitOutcomes : ScanCommit(j, o)
    \/ \E j \in DOMAIN jobs : ScanExcept(j)
    \/ \E j \in DOMAIN jobs : ScanEnd(j)
    \/ AdvanceDay

Spec == Init /\ [][Next]_vars

====
